---- MODULE Spec2Model ----
(***************************************************************************)
(* go-user-api: registration, login and bearer-token protected CRUD on a   *)
(* single users table.  The store is the PostgreSQL table of the README's  *)
(* schema; every handler issues one SQL statement against it.  Strings of  *)
(* request payloads are tuples of one-character strings, so that length    *)
(* and pattern checks are computed and not assumed.                        *)
(***************************************************************************)
EXTENDS Integers, Sequences, FiniteSets, TLC

\* ------------------------------------------------------------------ bounds
MaxId == 3          \* values the SERIAL id sequence may hand out
MaxTokens == 1      \* tokens the clients keep at one time
MaxDays == 1        \* days over which the clock is followed
Fraction == 500     \* milliseconds past the whole second at which it is also read
MaxInflight == 2    \* Register requests handled concurrently

\* --------------------------------------------------------------- constants
TokenTTL == 86400000     \* 24 * time.Hour, in milliseconds
TimePrecision == 1000    \* jwt.TimePrecision (time.Second), in milliseconds

StatusOK == 200
StatusCreated == 201
StatusBadRequest == 400
StatusUnauthorized == 401
StatusForbidden == 403
StatusNotFound == 404
StatusConflict == 409
StatusInternalServerError == 500

\* ----------------------------------------------------------------- strings
Str0 == << >>
LowerCase == {"a","b","c","d","e","f","g","h","i","j","k","l","m",
              "n","o","p","q","r","s","t","u","v","w","x","y","z"}
UpperCase == {"A","B","C","D","E","F","G","H","I","J","K","L","M",
              "N","O","P","Q","R","S","T","U","V","W","X","Y","Z"}
Digits == {"0","1","2","3","4","5","6","7","8","9"}
Letters == LowerCase \cup UpperCase
LocalChars == Letters \cup Digits \cup {".", "_", "%", "+", "-"}
DomainChars == Letters \cup Digits \cup {".", "-"}

\* A Go string is a sequence of bytes; a payload string is written here as
\* its characters, and an ASCII character takes one byte in UTF-8, the
\* characters beyond ASCII used here (Latin letters with an accent) two.
Ascii == Letters \cup Digits \cup {".", "_", "%", "+", "-", "@"}
Width(c) == IF c \in Ascii THEN 1 ELSE 2
RECURSIVE len(_)
len(s) == IF s = << >> THEN 0 ELSE Width(Head(s)) + len(Tail(s))

AllIn(s, lo, hi, class) == \A k \in lo..hi : s[k] \in class

\* ^[a-zA-Z0-9._%+-]+@[a-zA-Z0-9.-]+\.[a-zA-Z]{2,}$
isValidEmail(email) ==
    \E i \in 2..Len(email) : \E j \in (i + 2)..(Len(email) - 2) :
        /\ email[i] = "@"
        /\ email[j] = "."
        /\ AllIn(email, 1, i - 1, LocalChars)
        /\ AllIn(email, i + 1, j - 1, DomainChars)
        /\ AllIn(email, j + 1, Len(email), Letters)

NoError == "nil"

ValidatePasswordFirst(r) ==
    IF r.password = Str0 THEN "password is required"
    ELSE IF len(r.password) < 6 THEN "password must be at least 6 characters"
    ELSE IF r.email = Str0 THEN "email is required"
    ELSE IF ~isValidEmail(r.email) THEN "invalid email format"
    ELSE IF r.username = Str0 THEN "username is required"
    ELSE IF len(r.username) < 3 THEN "username must be at least 3 characters"
    ELSE NoError
Validate(r) ==
    IF r.email = Str0 THEN "email is required"
    ELSE IF ~isValidEmail(r.email) THEN "invalid email format"
    ELSE IF r.username = Str0 THEN "username is required"
    ELSE IF len(r.username) < 3 THEN "username must be at least 3 characters"
    ELSE IF r.password = Str0 THEN "password is required"
    ELSE IF len(r.password) < 6 THEN "password must be at least 6 characters"
    ELSE NoError

\* ---------------------------------------------------------------- payloads
EmailA == <<"a","@","x",".","i","o">>
EmailB == <<"b","@","x",".","i","o">>
EmailBad == <<"a","@","x">>
EmailShortTld == <<"a","@","x",".","i">>
UserAnn == <<"a","n","n">>
UserBob == <<"b","o","b">>
UserShort == <<"a","b">>
UserWide == <<"e-acute","e-acute">>
PassOne == <<"s","e","c","r","e","t","1">>
PassTwo == <<"s","e","c","r","e","t","2">>
PassShort == <<"s","e","c","r","1">>
NameA == <<"A">>
NameB == <<"B">>
NameL == <<"L">>
NameM == <<"M">>

\* The JSON object of a request body, by the keys the request structs read;
\* a key the object does not carry decodes to the empty string.
Fields(e, u, p, f, l) ==
    [email |-> e, username |-> u, password |-> p, first_name |-> f, last_name |-> l]
RegisterRequest(e, u, p, f, l) == Fields(e, u, p, f, l)
LoginRequest(e, p) == Fields(e, Str0, p, Str0, Str0)
UpdateUserRequest(e, u, f, l) == Fields(e, u, Str0, f, l)

\* A request body as the JSON decoder sees it: no bytes at all (io.EOF),
\* bytes that are not the expected JSON, or a JSON object with its fields.
Body(kind, fields) == [kind |-> kind, fields |-> fields]
NoFields == Fields(Str0, Str0, Str0, Str0, Str0)
EmptyBody == Body("empty", NoFields)
MalformedBody == Body("malformed", NoFields)
JsonBody(fields) == Body("json", fields)

\* ------------------------------------------------------------------- state
VARIABLES users,     \* the rows of the users table
          nextId,    \* next value of the id column's SERIAL sequence
          now,       \* wall clock, in milliseconds
          secret,    \* value of the JWT_SECRET environment variable
          tokens,    \* tokens clients hold, each with the time it was issued at
          inflight,  \* Register requests in progress, by connection
          storeUp,   \* whether the store answers the statements sent to it
          last       \* the request just answered: what the service saw and replied

vars == <<users, nextId, now, secret, tokens, inflight, storeUp, last>>

SecretUnset == ""
SecretSet == "s3cret"
SecretOther == "evil"

\* ------------------------------------------------------------------ hasher
HashPassword(password) == <<"bcrypt", password>>
CheckPassword(hash, password) == hash = <<"bcrypt", password>>

\* ------------------------------------------------------------------ tokens
\* kind: "none" (no Authorization header), "garbage" (not a JWT), "jwt".
Token(kind, alg, key, sub, iat, exp) ==
    [kind |-> kind, alg |-> alg, key |-> key, user_id |-> sub, iat |-> iat, exp |-> exp]
NoToken == Token("none", "", "", 0, 0, 0)
GarbageToken == Token("garbage", "", "", 0, 0, 0)
HMACMethods == {"HS256", "HS384", "HS512"}

\* jwt.NewNumericDate: a time as a claim, truncated to jwt.TimePrecision.
NewNumericDate(t) == (t \div TimePrecision) * TimePrecision

\* Result of GenerateToken: the signed token, or an error.
GenerateTokenNoSubject(userID) ==
    IF secret = SecretUnset
    THEN [err |-> "JWT_SECRET not set in environment", token |-> NoToken]
    ELSE [err |-> NoError,
          token |-> Token("jwt", "HS256", secret, 0, NewNumericDate(now),
                          NewNumericDate(now + TokenTTL))]
GenerateToken(userID) ==
    IF secret = SecretUnset
    THEN [err |-> "JWT_SECRET not set in environment", token |-> NoToken]
    ELSE [err |-> NoError,
          token |-> Token("jwt", "HS256", secret, userID, NewNumericDate(now),
                          NewNumericDate(now + TokenTTL))]

\* Result of ValidateToken: the user id of the claims, or an error.
\* jwt.ParseWithClaims: the key function rejects a non-HMAC method, the
\* signature is checked against the secret, and the exp claim must lie after
\* the current time.
NotExpiredUnchecked(t) == TRUE
NotExpired(t) == now < t.exp
ValidateToken(t) ==
    IF secret = SecretUnset
    THEN [err |-> "JWT_SECRET not set in environment", userID |-> 0]
    ELSE IF t.kind # "jwt" THEN [err |-> "token is malformed", userID |-> 0]
    ELSE IF t.alg \notin HMACMethods THEN [err |-> "invalid signing method", userID |-> 0]
    ELSE IF t.key # secret THEN [err |-> "signature is invalid", userID |-> 0]
    ELSE IF ~NotExpired(t) THEN [err |-> "token is expired", userID |-> 0]
    ELSE [err |-> NoError, userID |-> t.user_id]

\* ------------------------------------------------------------------- store
\* Whether a statement sent to the store now fails for an internal reason
\* (the store is unreachable), as opposed to a constraint or an absent row.
StoreFault == ~storeUp

Row(id, e, u, h, f, l, c, m) ==
    [id |-> id, email |-> e, username |-> u, password_hash |-> h,
     first_name |-> f, last_name |-> l, created_at |-> c, updated_at |-> m]

\* models.User as encoded to JSON: the password hash is never sent.
UserView(r) ==
    [id |-> r.id, email |-> r.email, username |-> r.username,
     first_name |-> r.first_name, last_name |-> r.last_name,
     created_at |-> r.created_at, updated_at |-> r.updated_at]
NoRow == Row(0, Str0, Str0, Str0, Str0, Str0, 0, 0)
NoUser == UserView(NoRow)

\* The UNIQUE constraints of the users table.
UniqueViolationEmailOnly(table, e, u) == \E r \in table : r.email = e
UniqueViolation(table, e, u) ==
    \E r \in table : r.email = e \/ r.username = u

ErrNoRows == "sql: no rows in result set"
ErrUnique == "pq: duplicate key value violates unique constraint"
ErrConn == "dial tcp: connection refused"

\* INSERT INTO users (...) VALUES (...) RETURNING ...: the id default takes
\* the next sequence value before the constraints are checked.
InsertUserAfterMaxId(req, hash, fault) ==
    IF fault THEN [err |-> ErrConn, row |-> NoRow, table |-> users, seq |-> nextId]
    ELSE LET top == IF users = {} THEN 0
                    ELSE CHOOSE n \in {r.id : r \in users} : \A r \in users : r.id <= n
             row == Row(top + 1, req.email, req.username, hash,
                        req.first_name, req.last_name, now, now)
         IN IF UniqueViolation(users, req.email, req.username)
            THEN [err |-> ErrUnique, row |-> row, table |-> users, seq |-> nextId + 1]
            ELSE [err |-> NoError, row |-> row, table |-> users \cup {row},
                  seq |-> nextId + 1]
InsertUserNotCommitted(req, hash, fault) ==
    IF fault THEN [err |-> ErrConn, row |-> NoRow, table |-> users, seq |-> nextId]
    ELSE LET row == Row(nextId, req.email, req.username, hash,
                        req.first_name, req.last_name, now, now)
         IN IF UniqueViolation(users, req.email, req.username)
            THEN [err |-> ErrUnique, row |-> row, table |-> users, seq |-> nextId + 1]
            ELSE [err |-> NoError, row |-> row,
                  table |-> IF secret = SecretUnset THEN users ELSE users \cup {row},
                  seq |-> nextId + 1]
InsertUser(req, hash, fault) ==
    IF fault THEN [err |-> ErrConn, row |-> NoRow, table |-> users, seq |-> nextId]
    ELSE LET row == Row(nextId, req.email, req.username, hash,
                        req.first_name, req.last_name, now, now)
         IN IF UniqueViolation(users, req.email, req.username)
            THEN [err |-> ErrUnique, row |-> row, table |-> users, seq |-> nextId + 1]
            ELSE [err |-> NoError, row |-> row, table |-> users \cup {row},
                  seq |-> nextId + 1]

\* SELECT ... FROM users WHERE email = $1
SelectByEmailAbsentAsFailure(e, fault) ==
    IF fault THEN [err |-> ErrConn, rows |-> {}]
    ELSE LET hit == {r \in users : r.email = e}
         IN [err |-> IF hit = {} THEN ErrConn ELSE NoError, rows |-> hit]
SelectByEmail(e, fault) ==
    IF fault THEN [err |-> ErrConn, rows |-> {}]
    ELSE LET hit == {r \in users : r.email = e}
         IN [err |-> IF hit = {} THEN ErrNoRows ELSE NoError, rows |-> hit]

\* SELECT ... FROM users WHERE id = $1
SelectByID(id, fault) ==
    IF fault THEN [err |-> ErrConn, rows |-> {}]
    ELSE LET hit == {r \in users : r.id = id}
         IN [err |-> IF hit = {} THEN ErrNoRows ELSE NoError, rows |-> hit]

\* COALESCE(NULLIF($1, ''), column)
CoalesceOverwrite(arg, column) == arg
Coalesce(arg, column) == IF arg = Str0 THEN column ELSE arg

UpdatedRow(r, firstName, lastName) ==
    [r EXCEPT !.first_name = Coalesce(firstName, r.first_name),
              !.last_name = Coalesce(lastName, r.last_name),
              !.updated_at = now]

\* UPDATE users SET ... WHERE id = $3 RETURNING ...
UpdateNamesEveryRow(id, firstName, lastName, fault) ==
    IF fault THEN [err |-> ErrConn, rows |-> {}, table |-> users]
    ELSE LET hit == {r \in users : r.id = id}
             new == {UpdatedRow(r, firstName, lastName) : r \in hit}
         IN [err |-> IF hit = {} THEN ErrNoRows ELSE NoError, rows |-> new,
             table |-> {UpdatedRow(r, firstName, lastName) : r \in users}]
UpdateNames(id, firstName, lastName, fault) ==
    IF fault THEN [err |-> ErrConn, rows |-> {}, table |-> users]
    ELSE LET hit == {r \in users : r.id = id}
             new == {UpdatedRow(r, firstName, lastName) : r \in hit}
         IN [err |-> IF hit = {} THEN ErrNoRows ELSE NoError, rows |-> new,
             table |-> (users \ hit) \cup new]

\* DELETE FROM users WHERE id = $1
DeleteByID(id, fault) ==
    IF fault THEN [err |-> ErrConn, rowsAffected |-> 0, table |-> users]
    ELSE LET hit == {r \in users : r.id = id}
         IN [err |-> NoError, rowsAffected |-> Cardinality(hit), table |-> users \ hit]

\* strconv.Atoi on the {id} path segment; segments are decimal numerals or not.
PathSegment(n) == ToString(n)
Atoi(seg) ==
    IF \E n \in 0..(MaxId + 2) : ToString(n) = seg
    THEN [err |-> NoError, val |-> CHOOSE n \in 0..(MaxId + 2) : ToString(n) = seg]
    ELSE [err |-> "strconv.Atoi: invalid syntax", val |-> 0]

\* ---------------------------------------------------------------- exchange
\* What the service saw of the request it answered last and what it replied.
\* stage: "auth" when the middleware answered, "handler" when the handler ran.
NoContext == [has |-> FALSE, userID |-> 0]
Context(userID) == [has |-> TRUE, userID |-> userID]

Idle ==
    [op |-> "none", stage |-> "none", status |-> 0, error |-> "", message |-> "",
     tok |-> NoToken, ctx |-> NoContext, id |-> 0, body |-> "none",
     req |-> NoFields, fault |-> FALSE,
     user |-> NoUser, token |-> NoToken, list |-> << >>]

\* Connections on which a Register may be in progress.
Slots == 1..MaxInflight
SlotIdle == [pc |-> "idle", base |-> Idle, req |-> NoFields, row |-> NoRow]

\* Clients keep the tokens they are handed, up to MaxTokens of them, and
\* know when they were handed each.
Holding(t) == [tok |-> t, at |-> now]
Keep(t) ==
    IF Cardinality(tokens \cup {Holding(t)}) <= MaxTokens
    THEN tokens \cup {Holding(t)} ELSE tokens
Held == {h.tok : h \in tokens}

\* -------------------------------------------------------------- middleware
\* Routes registered on the /api/users subrouter, which uses middleware.Auth.
ProtectedRoutesButDelete == {"list", "me", "get", "update"}
ProtectedRoutes == {"list", "me", "get", "update", "delete"}
PublicRoutes == {"register", "login", "health"}

Auth(tok) ==
    IF tok.kind = "none"
    THEN [pass |-> FALSE, status |-> StatusUnauthorized, error |-> "Unauthorized",
          ctx |-> NoContext]
    ELSE LET v == ValidateToken(tok)
         IN IF v.err # NoError
            THEN [pass |-> FALSE, status |-> StatusUnauthorized,
                  error |-> "Invalid token", ctx |-> NoContext]
            ELSE [pass |-> TRUE, status |-> 0, error |-> "", ctx |-> Context(v.userID)]

\* The middleware chain in front of a route's handler.
Middleware(route, tok) ==
    IF route \in ProtectedRoutes THEN Auth(tok)
    ELSE [pass |-> TRUE, status |-> 0, error |-> "", ctx |-> NoContext]

Rejected(route, tok, m) ==
    /\ last' = [Idle EXCEPT !.op = route, !.stage = "auth", !.tok = tok,
                            !.status = m.status, !.error = m.error]
    /\ UNCHANGED <<users, nextId, now, secret, tokens, inflight, storeUp>>

\* A handler's reply that leaves the store as it is.
Reply(r) ==
    /\ last' = r
    /\ UNCHANGED <<users, nextId, now, secret, tokens, inflight, storeUp>>

Handled(route, tok, ctx) ==
    [Idle EXCEPT !.op = route, !.stage = "handler", !.tok = tok, !.ctx = ctx]

Failure(base, status, error) == [base EXCEPT !.status = status, !.error = error]

\* ---------------------------------------------------------------- handlers
\* POST /api/auth/register
RegisterHandler(base, body) ==
    IF body.kind # "json"
    THEN Reply(Failure(base, StatusBadRequest, "Invalid request body"))
    ELSE LET req == body.fields
             seen == [base EXCEPT !.req = req, !.body = body.kind]
         IN IF Validate(req) # NoError
            THEN Reply(Failure(seen, StatusBadRequest, Validate(req)))
            ELSE LET fault == StoreFault IN
                 LET ins == InsertUser(req, HashPassword(req.password), fault)
                     gen == GenerateToken(ins.row.id)
                     sent == [seen EXCEPT !.fault = fault]
                 IN /\ (~fault) => nextId <= MaxId
                    /\ users' = ins.table
                    /\ nextId' = ins.seq
                    /\ UNCHANGED <<now, secret, inflight, storeUp>>
                    /\ IF ins.err # NoError
                       THEN /\ last' = Failure(sent, StatusConflict,
                                               "Email or username already exists")
                            /\ UNCHANGED tokens
                       ELSE IF gen.err # NoError
                       THEN /\ last' = Failure(sent, StatusInternalServerError,
                                               "Failed to generate token")
                            /\ UNCHANGED tokens
                       ELSE /\ last' = [sent EXCEPT !.status = StatusCreated,
                                                    !.token = gen.token,
                                                    !.user = UserView(ins.row)]
                            /\ tokens' = Keep(gen.token)

\* POST /api/auth/login
LoginHandler(base, body) ==
    IF body.kind # "json"
    THEN Reply(Failure(base, StatusBadRequest, "Invalid request body"))
    ELSE LET req == body.fields
             seen == [base EXCEPT !.req = req]
         IN IF req.email = Str0 \/ req.password = Str0
            THEN Reply(Failure(seen, StatusBadRequest, "Email and password are required"))
            ELSE LET fault == StoreFault IN
                 LET sel == SelectByEmail(req.email, fault)
                     sent == [seen EXCEPT !.fault = fault]
                 IN IF sel.err = ErrNoRows
                    THEN Reply(Failure(sent, StatusUnauthorized, "Invalid email or password"))
                    ELSE IF sel.err # NoError
                    THEN Reply(Failure(sent, StatusInternalServerError, "Database error"))
                    ELSE \E user \in sel.rows :
                         LET gen == GenerateToken(user.id)
                         IN IF ~CheckPassword(user.password_hash, req.password)
                            THEN Reply(Failure(sent, StatusUnauthorized,
                                               "Invalid email or password"))
                            ELSE IF gen.err # NoError
                            THEN Reply(Failure(sent, StatusInternalServerError,
                                               "Failed to generate token"))
                            ELSE /\ last' = [sent EXCEPT !.status = StatusOK,
                                                         !.token = gen.token,
                                                         !.user = UserView(user)]
                                 /\ tokens' = Keep(gen.token)
                                 /\ UNCHANGED <<users, nextId, now, secret, inflight, storeUp>>

\* Orders in which ORDER BY created_at DESC may return the rows: ties between
\* equal timestamps are broken by the store as it pleases.
DescByCreatedAt(table) ==
    {s \in [1..Cardinality(table) -> table] :
        /\ \A i, j \in DOMAIN s : i # j => s[i] # s[j]
        /\ \A i, j \in DOMAIN s : i < j => s[i].created_at >= s[j].created_at}

\* GET /api/users
GetUsers(base) ==
    LET fault == StoreFault IN
    LET sent == [base EXCEPT !.fault = fault]
    IN IF fault
       THEN Reply(Failure(sent, StatusInternalServerError, "Failed to fetch users"))
       ELSE \E rows \in DescByCreatedAt(users) :
                Reply([sent EXCEPT !.status = StatusOK,
                                   !.list = [i \in DOMAIN rows |-> UserView(rows[i])]])

\* GET /api/users/{id}
GetUser(base, seg) ==
    LET id == Atoi(seg)
    IN IF id.err # NoError
       THEN Reply(Failure(base, StatusBadRequest, "Invalid user ID"))
       ELSE LET fault == StoreFault IN
            LET sel == SelectByID(id.val, fault)
                sent == [base EXCEPT !.id = id.val, !.fault = fault]
            IN IF sel.err = ErrNoRows
               THEN Reply(Failure(sent, StatusNotFound, "User not found"))
               ELSE IF sel.err # NoError
               THEN Reply(Failure(sent, StatusInternalServerError, "Database error"))
               ELSE \E user \in sel.rows :
                        Reply([sent EXCEPT !.status = StatusOK, !.user = UserView(user)])

\* GET /api/users/me
GetCurrentUser(base) ==
    IF ~base.ctx.has
    THEN Reply(Failure(base, StatusUnauthorized, "Unauthorized"))
    ELSE LET fault == StoreFault IN
         LET sel == SelectByID(base.ctx.userID, fault)
             sent == [base EXCEPT !.fault = fault]
         IN IF sel.err # NoError
            THEN Reply(Failure(sent, StatusInternalServerError, "Failed to fetch user"))
            ELSE \E user \in sel.rows :
                     Reply([sent EXCEPT !.status = StatusOK, !.user = UserView(user)])

\* The ownership check of UpdateUser and DeleteUser.
OwnsAnyone(ctx, id) == ctx.has
Owns(ctx, id) == ctx.has /\ ctx.userID = id

\* PUT /api/users/{id}
UpdateUser(base, seg, body) ==
    LET id == Atoi(seg)
        seen == [base EXCEPT !.id = id.val, !.body = body.kind]
    IN IF id.err # NoError
       THEN Reply(Failure([base EXCEPT !.body = body.kind], StatusBadRequest,
                          "Invalid user ID"))
       ELSE IF ~Owns(base.ctx, id.val)
       THEN Reply(Failure(seen, StatusForbidden, "You can only update your own profile"))
       ELSE IF body.kind # "json"
       THEN Reply(Failure(seen, StatusBadRequest, "Invalid request body"))
       ELSE LET fault == StoreFault IN
            LET req == body.fields
                upd == UpdateNames(id.val, req.first_name, req.last_name, fault)
                sent == [seen EXCEPT !.req = req, !.fault = fault]
            IN IF upd.err # NoError
               THEN Reply(Failure(sent, StatusInternalServerError, "Failed to update user"))
               ELSE \E user \in upd.rows :
                    /\ last' = [sent EXCEPT !.status = StatusOK, !.user = UserView(user)]
                    /\ users' = upd.table
                    /\ UNCHANGED <<nextId, now, secret, tokens, inflight, storeUp>>

\* DELETE /api/users/{id}
DeleteUser(base, seg) ==
    LET id == Atoi(seg)
        seen == [base EXCEPT !.id = id.val]
    IN IF id.err # NoError
       THEN Reply(Failure(base, StatusBadRequest, "Invalid user ID"))
       ELSE IF ~Owns(base.ctx, id.val)
       THEN Reply(Failure(seen, StatusForbidden, "You can only delete your own account"))
       ELSE LET fault == StoreFault IN
            LET del == DeleteByID(id.val, fault)
                sent == [seen EXCEPT !.fault = fault]
            IN IF del.err # NoError
               THEN Reply(Failure(sent, StatusInternalServerError, "Failed to delete user"))
               ELSE IF del.rowsAffected = 0
               THEN Reply(Failure(sent, StatusNotFound, "User not found"))
               ELSE /\ last' = [sent EXCEPT !.status = StatusOK,
                                            !.message = "User deleted successfully"]
                    /\ users' = del.table
                    /\ UNCHANGED <<nextId, now, secret, tokens, inflight, storeUp>>

\* GET /health
HealthHandler(base) == Reply([base EXCEPT !.status = StatusOK, !.message = "OK"])

\* ------------------------------------------------------------------ routes
\* One request on a route of the router: the middleware chain, then the
\* handler on what the request carries (its body, its {id} path segment).
ServeRegister(tok, bodies) ==
    LET m == Middleware("register", tok)
    IN IF ~m.pass THEN Rejected("register", tok, m)
       ELSE \E body \in bodies : RegisterHandler(Handled("register", tok, m.ctx), body)

ServeLogin(tok, bodies) ==
    LET m == Middleware("login", tok)
    IN IF ~m.pass THEN Rejected("login", tok, m)
       ELSE \E body \in bodies : LoginHandler(Handled("login", tok, m.ctx), body)

ServeHealth(tok) ==
    LET m == Middleware("health", tok)
    IN IF ~m.pass THEN Rejected("health", tok, m)
       ELSE HealthHandler(Handled("health", tok, m.ctx))

ServeGetUsers(tok) ==
    LET m == Middleware("list", tok)
    IN IF ~m.pass THEN Rejected("list", tok, m)
       ELSE GetUsers(Handled("list", tok, m.ctx))

ServeGetCurrentUser(tok) ==
    LET m == Middleware("me", tok)
    IN IF ~m.pass THEN Rejected("me", tok, m)
       ELSE GetCurrentUser(Handled("me", tok, m.ctx))

ServeGetUser(tok, segs) ==
    LET m == Middleware("get", tok)
    IN IF ~m.pass THEN Rejected("get", tok, m)
       ELSE \E seg \in segs : GetUser(Handled("get", tok, m.ctx), seg)

ServeUpdateUser(tok, segs, bodies) ==
    LET m == Middleware("update", tok)
    IN IF ~m.pass THEN Rejected("update", tok, m)
       ELSE \E seg \in segs, body \in bodies :
                UpdateUser(Handled("update", tok, m.ctx), seg, body)

ServeDeleteUser(tok, segs) ==
    LET m == Middleware("delete", tok)
    IN IF ~m.pass THEN Rejected("delete", tok, m)
       ELSE \E seg \in segs : DeleteUser(Handled("delete", tok, m.ctx), seg)

\* ------------------------------------------- Register, statement by statement
\* The server handles each connection in its own goroutine.  A Register in
\* progress on connection s stands before its INSERT (pc "insert") or, the
\* row inserted, before its call of GenerateToken (pc "token").
Finish(s) == inflight' = [inflight EXCEPT ![s] = SlotIdle]

\* Decode, validate and hash: nothing shared is touched.
RegisterDecode(s, tok, bodies) ==
    /\ inflight[s].pc = "idle"
    /\ LET m == Middleware("register", tok)
           base == Handled("register", tok, m.ctx)
       IN IF ~m.pass THEN Rejected("register", tok, m)
          ELSE \E body \in bodies :
               IF body.kind # "json"
               THEN Reply(Failure(base, StatusBadRequest, "Invalid request body"))
               ELSE IF Validate(body.fields) # NoError
               THEN Reply(Failure([base EXCEPT !.req = body.fields], StatusBadRequest,
                                  Validate(body.fields)))
               ELSE /\ inflight' = [inflight EXCEPT ![s] =
                                       [pc |-> "insert",
                                        base |-> [base EXCEPT !.req = body.fields],
                                        req |-> body.fields, row |-> NoRow]]
                    /\ UNCHANGED <<users, nextId, now, secret, tokens, storeUp, last>>

\* The INSERT statement, executed by the store as one step.
RegisterInsert(s) ==
    /\ inflight[s].pc = "insert"
    /\ LET fault == StoreFault IN
       LET req == inflight[s].req
           ins == InsertUser(req, HashPassword(req.password), fault)
           sent == [inflight[s].base EXCEPT !.fault = fault]
       IN /\ (~fault) => nextId <= MaxId
          /\ users' = ins.table
          /\ nextId' = ins.seq
          /\ UNCHANGED <<now, secret, tokens, storeUp>>
          /\ IF ins.err # NoError
             THEN /\ last' = Failure(sent, StatusConflict, "Email or username already exists")
                  /\ Finish(s)
             ELSE /\ inflight' = [inflight EXCEPT ![s] =
                                     [pc |-> "token", base |-> sent, req |-> req,
                                      row |-> ins.row]]
                  /\ UNCHANGED last

\* GenerateToken and the response.
RegisterRespond(s) ==
    /\ inflight[s].pc = "token"
    /\ LET gen == GenerateToken(inflight[s].row.id)
           sent == inflight[s].base
       IN /\ Finish(s)
          /\ UNCHANGED <<users, nextId, now, secret, storeUp>>
          /\ IF gen.err # NoError
             THEN /\ last' = Failure(sent, StatusInternalServerError,
                                     "Failed to generate token")
                  /\ UNCHANGED tokens
             ELSE /\ last' = [sent EXCEPT !.status = StatusCreated, !.token = gen.token,
                                          !.user = UserView(inflight[s].row)]
                  /\ tokens' = Keep(gen.token)

\* ------------------------------------------------------------- environment
\* The instants at which the clock is read: every 24 hours, on the whole
\* second and a fraction of a second past it.
Instants == {k * TokenTTL + f : k \in 0..MaxDays, f \in {0, Fraction}}

\* The clock advances to its next reading, up to the instant `upto`.
Tick(upto) ==
    /\ \E t \in Instants :
          /\ now < t /\ t <= upto
          /\ \A x \in Instants : now < x => t <= x
          /\ now' = t
    /\ last' = Idle
    /\ UNCHANGED <<users, nextId, secret, tokens, inflight, storeUp>>

\* The store becomes unreachable, or reachable again.
StoreDown ==
    /\ storeUp
    /\ storeUp' = FALSE
    /\ last' = Idle
    /\ UNCHANGED <<users, nextId, now, secret, tokens, inflight>>

StoreBack ==
    /\ ~storeUp
    /\ storeUp' = TRUE
    /\ last' = Idle
    /\ UNCHANGED <<users, nextId, now, secret, tokens, inflight>>

\* A client discards a token it holds.
DropToken ==
    /\ \E t \in tokens : tokens' = tokens \ {t}
    /\ last' = Idle
    /\ UNCHANGED <<users, nextId, now, secret, inflight, storeUp>>

\* Tokens a client may present: none, one it was issued, or one it made up.
ForgedTokens ==
    {GarbageToken,
     Token("jwt", "none", "", 1, NewNumericDate(now), NewNumericDate(now + TokenTTL)),
     Token("jwt", "HS256", SecretOther, 1, NewNumericDate(now),
           NewNumericDate(now + TokenTTL))}
Presented == {NoToken} \cup Held \cup ForgedTokens

PathSegments == {PathSegment(n) : n \in 1..MaxId} \cup {"me"}

Init ==
    /\ users = {}
    /\ nextId = 1
    /\ now = 0
    /\ secret \in {SecretUnset, SecretSet}
    /\ tokens = {}
    /\ inflight = [s \in Slots |-> SlotIdle]
    /\ storeUp = TRUE
    /\ last = Idle

\* ---------------------------------------------------------- request inputs
RegisterBodies ==
    {MalformedBody,
     JsonBody(RegisterRequest(EmailBad, UserAnn, PassOne, Str0, Str0)),
     JsonBody(RegisterRequest(EmailA, UserAnn, PassOne, Str0, Str0)),
     JsonBody(RegisterRequest(EmailB, UserAnn, PassOne, Str0, Str0)),
     JsonBody(RegisterRequest(EmailB, UserBob, PassOne, Str0, Str0))}

LoginBodies ==
    {MalformedBody} \cup
    {JsonBody(LoginRequest(e, p)) : e \in {EmailA, EmailB, Str0}, p \in {PassOne, PassTwo}}

UpdateBodies ==
    {MalformedBody, EmptyBody} \cup
    {JsonBody(UpdateUserRequest(Str0, Str0, f, Str0)) : f \in {Str0, NameA}}

\* One account only, for the runs in which the clock moves.
OneRegisterBody == {JsonBody(RegisterRequest(EmailA, UserAnn, PassOne, Str0, Str0))}
OneLoginBodies == {JsonBody(LoginRequest(EmailA, p)) : p \in {PassOne, PassTwo}}
PlainUpdateBody == {JsonBody(UpdateUserRequest(Str0, Str0, Str0, Str0))}

\* Register payloads over every combination of an empty, an ill-formed and a
\* well-formed email, username and password.
ValidationBodies ==
    {MalformedBody} \cup
    {JsonBody(RegisterRequest(e, u, p, Str0, Str0)) :
        e \in {Str0, EmailBad, EmailShortTld, EmailA},
        u \in {Str0, UserShort, UserWide, UserAnn},
        p \in {Str0, PassShort, PassOne}}

\* Payloads that collide in the email, in the username, or not at all.
ConcurrentBodies ==
    {MalformedBody,
     JsonBody(RegisterRequest(EmailA, UserShort, PassOne, Str0, Str0)),
     JsonBody(RegisterRequest(EmailA, UserAnn, PassOne, Str0, Str0)),
     JsonBody(RegisterRequest(EmailA, UserBob, PassOne, Str0, Str0)),
     JsonBody(RegisterRequest(EmailB, UserBob, PassOne, Str0, Str0))}

\* Payloads that differ in the name fields.
NamedRegisterBodies ==
    {JsonBody(RegisterRequest(EmailA, UserAnn, PassOne, Str0, Str0)),
     JsonBody(RegisterRequest(EmailA, UserAnn, PassOne, NameA, NameL))}
NamedUpdateBodies ==
    {JsonBody(UpdateUserRequest(eu[1], eu[2], f, l)) :
        eu \in {<<Str0, Str0>>, <<EmailB, UserBob>>},
        f \in {Str0, NameB}, l \in {Str0, NameM}}

\* Two accounts, and Update bodies that also carry the other account's
\* email and username.
TwoRegisterBodies ==
    {JsonBody(RegisterRequest(EmailA, UserAnn, PassOne, NameA, NameL)),
     JsonBody(RegisterRequest(EmailB, UserBob, PassTwo, Str0, Str0))}
ForeignUpdateBodies ==
    {JsonBody(UpdateUserRequest(eu[1], eu[2], f, Str0)) :
        eu \in {<<Str0, Str0>>, <<EmailB, UserBob>>, <<EmailA, UserAnn>>},
        f \in {Str0, NameB}}

\* ---------------------------------------------------------- specifications
\* The API under requests of any client, the clock standing still.
Next ==
    \/ ServeRegister(NoToken, RegisterBodies)
    \/ ServeLogin(NoToken, LoginBodies)
    \/ ServeHealth(NoToken)
    \/ \E tok \in Presented : ServeGetUsers(tok)
    \/ \E tok \in Presented : ServeGetCurrentUser(tok)
    \/ \E tok \in Presented : ServeGetUser(tok, PathSegments)
    \/ \E tok \in Presented : ServeUpdateUser(tok, PathSegments, UpdateBodies)
    \/ \E tok \in Presented : ServeDeleteUser(tok, PathSegments)
    \/ DropToken

Spec == Init /\ [][Next]_vars

\* One account over time: tokens are issued, age and expire.
NextClock ==
    \/ ServeRegister(NoToken, OneRegisterBody)
    \/ ServeLogin(NoToken, OneLoginBodies)
    \/ ServeHealth(NoToken)
    \/ \E tok \in Presented : ServeGetUsers(tok)
    \/ \E tok \in Presented : ServeGetCurrentUser(tok)
    \/ \E tok \in Presented : ServeGetUser(tok, PathSegments)
    \/ \E tok \in Presented : ServeUpdateUser(tok, PathSegments, PlainUpdateBody)
    \/ \E tok \in Presented : ServeDeleteUser(tok, PathSegments)
    \/ Tick(MaxDays * TokenTTL + Fraction)

SpecClock == Init /\ [][NextClock]_vars

\* Register over the validation payloads, accounts coming and going.
NextValidate ==
    \/ ServeRegister(NoToken, ValidationBodies)
    \/ \E tok \in Held : ServeDeleteUser(tok, PathSegments)
    \/ DropToken

SpecValidate == Init /\ [][NextValidate]_vars

\* One account and the tokens issued for it, from issue to expiry.
NextLifetime ==
    \/ ServeRegister(NoToken, OneRegisterBody)
    \/ ServeLogin(NoToken, OneLoginBodies)
    \/ \E tok \in Held : ServeGetCurrentUser(tok)
    \/ \E tok \in Held : ServeDeleteUser(tok, PathSegments)
    \/ DropToken
    \/ Tick(MaxDays * TokenTTL + Fraction)

SpecLifetime == Init /\ [][NextLifetime]_vars

\* One account, the store going away and coming back.
NextOutage ==
    \/ ServeRegister(NoToken, OneRegisterBody)
    \/ ServeLogin(NoToken, OneLoginBodies)
    \/ \E tok \in Presented : ServeGetUsers(tok)
    \/ \E tok \in Presented : ServeGetCurrentUser(tok)
    \/ \E tok \in Presented : ServeGetUser(tok, PathSegments)
    \/ \E tok \in Presented : ServeUpdateUser(tok, PathSegments, PlainUpdateBody)
    \/ \E tok \in Presented : ServeDeleteUser(tok, PathSegments)
    \/ StoreDown
    \/ StoreBack

SpecOutage == Init /\ [][NextOutage]_vars

\* Profile updates over time.
NextNames ==
    \/ ServeRegister(NoToken, NamedRegisterBodies)
    \/ \E tok \in Held : ServeUpdateUser(tok, PathSegments, NamedUpdateBodies)
    \/ DropToken
    \/ Tick(Fraction)

SpecNames == Init /\ [][NextNames]_vars

\* Two accounts side by side, one of them updating its profile.
NextFrame ==
    \/ ServeRegister(NoToken, TwoRegisterBodies)
    \/ \E tok \in Held : ServeUpdateUser(tok, PathSegments, ForeignUpdateBodies)
    \/ DropToken
    \/ Tick(Fraction)

SpecFrame == Init /\ [][NextFrame]_vars

\* Register requests handled concurrently, one statement at a time.
NextConcurrent ==
    \/ \E s \in Slots : RegisterDecode(s, NoToken, ConcurrentBodies)
    \/ \E s \in Slots : RegisterInsert(s)
    \/ \E s \in Slots : RegisterRespond(s)
    \/ \E tok \in Held : ServeDeleteUser(tok, PathSegments)

SpecConcurrent == Init /\ [][NextConcurrent]_vars

\* ------------------------------------------------------------------ claims
HasRow(table, id) == \E r \in table : r.id = id
IntegerPath(x) == x.error # "Invalid user ID"

\* C1: an Update or Delete whose integer path id differs from the subject
\* the middleware attached is answered 403 whatever its body and leaves the
\* table as it was; and a step in which a row of the table is changed or
\* removed is an Update or Delete whose subject is that row's id.
OwnershipEnforced ==
    [][ /\ ( /\ last'.op \in {"update", "delete"}
             /\ last'.stage = "handler"
             /\ IntegerPath(last')
             /\ last'.ctx.userID # last'.id )
           => (last'.status = 403 /\ users' = users)
        /\ \A r \in users :
             r \notin users' =>
                /\ last'.op \in {"update", "delete"}
                /\ last'.ctx = Context(r.id)
                /\ last'.id = r.id ]_vars

\* Somebody else's existing row was the target of an Update with a body that
\* is not JSON, and of a Delete.
ForeignUpdateRefused ==
    /\ last.op = "update" /\ last.status = 403 /\ last.body = "malformed"
    /\ last.ctx.has /\ last.ctx.userID # last.id
    /\ HasRow(users, last.id)

\* C2: no two rows share an email and no two share a username, whatever the
\* interleaving of the Register requests in progress; and the INSERT of a
\* Register whose email or username is that of an existing row adds no row
\* and is answered 409.
UniqueEmailAndUsername ==
    /\ [](\A r1, r2 \in users :
             r1 # r2 => (r1.email # r2.email /\ r1.username # r2.username))
    /\ [][\A s \in Slots :
             ( /\ inflight[s].pc = "insert"
               /\ inflight'[s].pc # "insert"
               /\ \E r \in users : \/ r.email = inflight[s].req.email
                                   \/ r.username = inflight[s].req.username )
             => ( /\ users' = users
                  /\ inflight'[s].pc = "idle"
                  /\ last'.op = "register"
                  /\ last'.req = inflight[s].req
                  /\ last'.status = 409 )]_vars

\* A Register was refused for its email alone, the username being new, while
\* another Register was still in progress.
DuplicateEmailRefused ==
    /\ last.op = "register" /\ last.status = 409 /\ ~last.fault
    /\ \E r \in users : r.email = last.req.email
    /\ \A r \in users : r.username # last.req.username
    /\ \E s \in Slots : inflight[s].pc # "idle"

\* C3: a Register answered 201 has inserted a row with the payload's email
\* and the hash of its password, and its token carries that row's id; a
\* Login with the email and password of a row, the secret configured and the
\* store answering, is answered 200 with a token that verifies and carries
\* that row's id.
LoginAfterRegister ==
    /\ (last.op = "register" /\ last.status = 201) =>
          /\ last.token.user_id = last.user.id
          /\ ValidateToken(last.token).err = NoError
          /\ ValidateToken(last.token).userID = last.user.id
          /\ \E r \in users : /\ r.id = last.user.id
                              /\ r.email = last.req.email
                              /\ r.password_hash = HashPassword(last.req.password)
    /\ \A r \in users :
          ( /\ last.op = "login"
            /\ last.stage = "handler"
            /\ ~last.fault
            /\ secret # ""
            /\ r.email = last.req.email
            /\ r.password_hash = HashPassword(last.req.password) )
          => ( /\ last.status = 200
               /\ last.token.user_id = r.id
               /\ ValidateToken(last.token).err = NoError
               /\ ValidateToken(last.token).userID = r.id
               /\ last.user = UserView(r) )

\* A Login succeeded for an account that is not the first one registered.
LoginSucceeded ==
    /\ last.op = "login" /\ last.status = 200
    /\ last.token.user_id = 2
    /\ \E r \in users : r.id = 2 /\ r.email = last.req.email

\* C4: a handler of the /api/users group runs only when the request's token
\* verifies, and with the token's subject in its context; a request of the
\* group with no token or one that does not verify is answered 401 by the
\* middleware, which leaves the store alone; register, login and health are
\* served with no token.
AuthGate ==
    /\ []( /\ (last.op \in {"list", "me", "get", "update", "delete"}
               /\ last.stage = "handler")
              => ( /\ ValidateToken(last.tok).err = NoError
                   /\ last.ctx = Context(last.tok.user_id) )
           /\ (last.op \in {"list", "me", "get", "update", "delete"}
               /\ (last.tok.kind = "none" \/ ValidateToken(last.tok).err # NoError))
              => (last.stage = "auth" /\ last.status = 401)
           /\ (last.op \in {"register", "login", "health"})
              => (last.stage = "handler" /\ last.tok = NoToken) )
    /\ [][last'.stage = "auth" => (users' = users /\ nextId' = nextId)]_vars

\* A token the service issued was refused once it had expired.
ExpiredTokenRefused ==
    /\ last.op \in {"list", "me", "get", "update", "delete"}
    /\ last.stage = "auth" /\ last.status = 401
    /\ last.tok.kind = "jwt" /\ last.tok.alg = "HS256" /\ last.tok.key = secret
    /\ now >= last.tok.exp
    /\ HasRow(users, last.tok.user_id)

\* C5: a Delete answered 200 removes the row of its id; an id the sequence
\* has handed out and that has no row never has a row again; a GET of an id
\* without a row is answered 404 "User not found", and so is a DELETE by the
\* subject of that id (the store answering).
DeletedStaysGone ==
    [][ /\ (last'.op = "delete" /\ last'.status = 200)
           => (HasRow(users, last'.id) /\ ~HasRow(users', last'.id)
               /\ last'.id < nextId')
        /\ nextId' >= nextId
        /\ \A i \in 1..(nextId - 1) : ~HasRow(users, i) => ~HasRow(users', i)
        /\ ( /\ last'.op = "get" /\ last'.stage = "handler" /\ IntegerPath(last')
             /\ ~last'.fault /\ ~HasRow(users, last'.id) )
           => (last'.status = 404 /\ last'.error = "User not found")
        /\ ( /\ last'.op = "delete" /\ last'.stage = "handler" /\ IntegerPath(last')
             /\ last'.ctx = Context(last'.id)
             /\ ~last'.fault /\ ~HasRow(users, last'.id) )
           => (last'.status = 404 /\ last'.error = "User not found"
               /\ users' = users) ]_vars

\* The subject of a deleted row repeated the DELETE with its token, after a
\* later Register had created another row.
RepeatedDeleteNotFound ==
    /\ last.op = "delete" /\ last.status = 404
    /\ last.ctx = Context(last.id) /\ last.id < nextId
    /\ \E r \in users : r.id > last.id

\* C6: an Update by the subject of an existing row, its body a JSON object
\* and the store answering, is answered 200; each of first_name and
\* last_name keeps its stored value when the request's value is empty and
\* takes the request's value otherwise; updated_at becomes the current
\* time; the response carries the row as stored.
CoalesceOnEmpty ==
    [][\A r \in users :
          ( /\ last'.op = "update" /\ last'.stage = "handler"
            /\ last'.ctx = Context(r.id) /\ last'.id = r.id
            /\ last'.body = "json" /\ ~last'.fault )
          => /\ last'.status = 200
             /\ \E n \in users' :
                  /\ n.id = r.id
                  /\ n.first_name = IF last'.req.first_name = << >>
                                    THEN r.first_name ELSE last'.req.first_name
                  /\ n.last_name = IF last'.req.last_name = << >>
                                   THEN r.last_name ELSE last'.req.last_name
                  /\ n.updated_at = now
                  /\ last'.user = UserView(n) ]_vars

\* An Update with an empty first_name and a new last_name kept the one and
\* replaced the other, at a later time than the row's creation.
OneNameKeptOneReplaced ==
    /\ last.op = "update" /\ last.status = 200
    /\ last.req.first_name = << >> /\ last.req.last_name = NameM
    /\ last.user.first_name = NameA /\ last.user.last_name = NameM
    /\ last.user.updated_at > last.user.created_at

\* C7: an Update that passes the ownership check and whose id has no row is
\* answered 404.
UpdateOfMissingRowNotFound ==
    ( /\ last.op = "update" /\ last.stage = "handler" /\ IntegerPath(last)
      /\ last.ctx = Context(last.id) /\ last.body = "json"
      /\ ~last.fault /\ ~HasRow(users, last.id) )
    => last.status = 404

\* C8: a handler whose store statement fails for an internal reason answers
\* 500, whichever handler it is.
StoreFailureIs500 == last.fault => last.status = 500

\* C9: GET /api/users/me with a token that verifies and whose subject has
\* no row is answered 404.
MeOfMissingRowNotFound ==
    ( /\ last.op = "me" /\ last.stage = "handler"
      /\ ValidateToken(last.tok).err = NoError
      /\ ~last.fault /\ ~HasRow(users, last.ctx.userID) )
    => last.status = 404

\* C10 as amended: a token issued now for a user carries that user, and
\* as exp the time 24 hours from now truncated to the whole second; a token
\* issued at time t verifies to its user at every time before that exp and
\* is rejected at every time from it on, so at every time after t + 24
\* hours, whatever rows the table holds.
TokenLifetime ==
    /\ (last.token.kind = "jwt") =>
          /\ last.token.exp = ((now + 86400000) \div 1000) * 1000
          /\ last.token.user_id = last.user.id
    /\ \A h \in tokens :
          /\ h.tok.exp = ((h.at + 86400000) \div 1000) * 1000
          /\ now < h.tok.exp =>
                ValidateToken(h.tok) = [err |-> NoError, userID |-> h.tok.user_id]
          /\ now >= h.tok.exp => ValidateToken(h.tok).err # NoError
          /\ now > h.at + 86400000 => ValidateToken(h.tok).err # NoError

\* A client holds a token older than 24 hours whose user has been deleted.
ExpiredTokenHeld ==
    \E h \in tokens : now > h.at + 86400000 /\ ~HasRow(users, h.tok.user_id)

\* C10 as claimed: a token issued at time t verifies to its user at every
\* time before t + 24 hours and is rejected at every time after it.
TokenLivesFullDay ==
    \A h \in tokens :
        /\ now < h.at + 86400000 =>
              ValidateToken(h.tok) = [err |-> NoError, userID |-> h.tok.user_id]
        /\ now > h.at + 86400000 => ValidateToken(h.tok).err # NoError

\* C11: a Register whose body decodes is answered 400 with exactly the
\* message of the first of the six checks its payload fails, in the order
\* email non-empty, email matches the pattern, username non-empty, username
\* of at least 3 bytes, password non-empty, password of at least 6 bytes,
\* and leaves the table and the id sequence as they were; it gets past
\* validation (201, 409 or 500) only when its payload passes all six.
ValidationChecks(r) ==
    << <<r.email # << >>, "email is required">>,
       <<isValidEmail(r.email), "invalid email format">>,
       <<r.username # << >>, "username is required">>,
       <<len(r.username) >= 3, "username must be at least 3 characters">>,
       <<r.password # << >>, "password is required">>,
       <<len(r.password) >= 6, "password must be at least 6 characters">> >>

FirstFailureReported ==
    [][(last'.op = "register" /\ last'.stage = "handler" /\ last'.body = "json") =>
          LET checks == ValidationChecks(last'.req)
              failed == {k \in 1..6 : ~checks[k][1]}
          IN /\ failed # {} =>
                   \E k \in failed :
                      /\ \A j \in failed : k <= j
                      /\ last'.status = 400
                      /\ last'.error = checks[k][2]
                      /\ users' = users /\ nextId' = nextId /\ tokens' = tokens
             /\ failed = {} => last'.status \in {201, 409, 500}]_vars

\* A Register whose payload fails three checks at once (username too short,
\* password empty, and so password too short) was answered with the message
\* of the username alone, while another passed with a username of two
\* characters that take four bytes.
SeveralFailuresOneMessage ==
    /\ last.op = "register" /\ last.status = 400
    /\ last.req.username = UserShort /\ last.req.password = << >>
    /\ last.error = "username must be at least 3 characters"
    /\ \E r \in users : r.username = UserWide

\* C12: with the store answering, a Login whose email has no row and a
\* Login whose email has a row with another password are answered alike:
\* status 401, the error "Invalid email or password", no user and no token,
\* and the table, the id sequence and the tokens held stay as they were.
BadCredentialsAlike ==
    [][(/\ last'.op = "login" /\ last'.stage = "handler" /\ storeUp
        /\ last'.req.email # << >> /\ last'.req.password # << >>
        /\ \/ \A r \in users : r.email # last'.req.email
           \/ \E r \in users : /\ r.email = last'.req.email
                               /\ r.password_hash # <<"bcrypt", last'.req.password>>)
       => /\ last'.status = 401
          /\ last'.error = "Invalid email or password"
          /\ last'.user = NoUser /\ last'.token = NoToken
          /\ users' = users /\ nextId' = nextId /\ tokens' = tokens]_vars

\* A Login with a stored email and another password was answered 401 while
\* the table also lacks an email a Login may name.
WrongPasswordRefused ==
    /\ last.op = "login" /\ last.status = 401
    /\ \E r \in users : /\ r.email = last.req.email
                        /\ r.password_hash # <<"bcrypt", last.req.password>>
    /\ \A r \in users : r.email # EmailB

\* C13: with the signing secret absent, a Register whose payload is valid
\* and collides with no row is answered 500 "Failed to generate token" and
\* hands out no token, yet its row is in the table from then on: no later
\* step removes a row, and a later Register with the email or the username
\* of a row is answered 409 and adds none.
RowOutlivesFailedRegister ==
    [][(secret = "" /\ storeUp /\ last'.op = "register" /\ last'.stage = "handler"
        /\ last'.body = "json" /\ last'.status # 400)
       => /\ users \subseteq users'
          /\ tokens' = tokens /\ last'.token = NoToken
          /\ IF \E r \in users : \/ r.email = last'.req.email
                                 \/ r.username = last'.req.username
             THEN last'.status = 409 /\ users' = users
             ELSE /\ last'.status = 500
                  /\ last'.error = "Failed to generate token"
                  /\ \E r \in users' \ users :
                        /\ users' = users \cup {r}
                        /\ r.id = nextId
                        /\ r.email = last'.req.email
                        /\ r.username = last'.req.username]_vars
    /\ [][secret = "" => users \subseteq users']_vars

\* With no secret configured a Register was answered 409 for its email: the
\* row it collides with can only be one a Register answered 500 has left.
SecondRegisterConflicts ==
    /\ secret = ""
    /\ last.op = "register" /\ last.status = 409
    /\ \E r \in users : r.email = last.req.email
    /\ tokens = {}

\* C14: an Update answered 200 replaces the row of the path id by a row that
\* differs from it in first_name, last_name and updated_at at most, so with
\* the same id, email, username, password hash and created_at whatever the
\* body carries, and leaves every other row, and the id sequence, as they
\* were.
UpdateFrame ==
    [][(last'.op = "update" /\ last'.status = 200) =>
          \E r \in users : \E n \in users' :
             /\ r.id = last'.id
             /\ n.id = r.id /\ n.email = r.email /\ n.username = r.username
             /\ n.password_hash = r.password_hash /\ n.created_at = r.created_at
             /\ users' \ {n} = users \ {r}
             /\ nextId' = nextId
             /\ last'.user = UserView(n)]_vars

\* An Update whose body carries the email and the username of the other
\* account was answered 200 with the row's own email, the other row present.
UpdateIgnoredForeignEmail ==
    /\ last.op = "update" /\ last.status = 200
    /\ last.req.email # << >> /\ last.req.email # last.user.email
    /\ last.req.first_name # << >>
    /\ \E r \in users : r.id # last.id /\ r.email = last.req.email
====
